---- MODULE Spec2Model ----
(***************************************************************************)
(* Model of the LaserTurret servo controller firmware                      *)
(* (motorControls/motorControls.ino): the serial line reader, the command  *)
(* interpreter, the smoothing step and the main loop that composes them.   *)
(*                                                                         *)
(* Characters are one-character strings, a String is a sequence of them.   *)
(* int is the 16-bit int of the AVR boards the sketch names (UNO, Nano,    *)
(* Mega), long is 32 bits.                                                 *)
(***************************************************************************)
EXTENDS Integers, Sequences, FiniteSets

VARIABLES
    currentPitch,   \* int currentPitch
    currentYaw,     \* int currentYaw
    targetPitch,    \* int targetPitch
    targetYaw,      \* int targetYaw
    inputBuffer,    \* String inputBuffer
    newData,        \* bool newData
    servoPitch,     \* angle latched by servoPitch (last write), NoWrite before any
    servoYaw,       \* angle latched by servoYaw (last write), NoWrite before any
    wrotePitch,     \* the latest updateServos() called servoPitch.write
    wroteYaw,       \* the latest updateServos() called servoYaw.write
    rx,             \* bytes waiting in the serial receive queue (Serial.available)
    hostLine,       \* bytes of the line the host is sending that have not arrived
    sent,           \* number of lines the host has started to send
    lastLine,       \* the line the host started last, NoLine before any
    expected,       \* the targets the host's commands ask for, see Expect
    pc,             \* position of the sketch: setup, then read/process/update
    received,       \* payload of the latest "# Received: " diagnostic
    setting,        \* values of the latest "# Setting ..." diagnostic
    errors          \* number of "# Error: Command too long" diagnostics emitted

vars == <<currentPitch, currentYaw, targetPitch, targetYaw, inputBuffer,
          newData, servoPitch, servoYaw, wrotePitch, wroteYaw, rx, hostLine,
          sent, lastLine, expected, pc, received, setting, errors>>

(***************************************************************************)
(* Program constants                                                       *)
(***************************************************************************)
PITCH_MIN == 0
PITCH_MAX == 180
YAW_MIN == 0
YAW_MAX == 180
\* const float SMOOTHING_FACTOR = 0.2, kept as the fraction SmoothNum/SmoothDen
SmoothNum == 1
SmoothDen == 5
\* "if (abs(new - current) > 1)"
JitterThreshold == 1
\* "if (inputBuffer.length() > 20)"
BufferLimit == 20
\* moveToPosition(90, 90)
Home == 90
\* number of values of the 16-bit int of the AVR boards
IntModulus == 65536

(***************************************************************************)
(* Bounds of the model                                                     *)
(***************************************************************************)
\* lines the host sends in one run
MaxSent == 2
\* bytes the host lets wait in the receive queue
MaxRx == 8

NoWrite == -1
NoLine == <<"none">>

LF == "\n"
CR == "\r"
Digits == <<"0", "1", "2", "3", "4", "5", "6", "7", "8", "9">>

IsDigit(c) == \E i \in 1..10 : Digits[i] = c
DigitVal(c) == (CHOOSE i \in 1..10 : Digits[i] = c) - 1
\* isspace(): the space character and the control characters \t \n \v \f \r
IsSpace(c) == c \in {" ", "\t", LF, CR, "\f"}

Abs(x) == IF x < 0 THEN -x ELSE x

\* conversion of a real value num/den to an integer type: the fraction is dropped
TruncDiv(num, den) == IF num >= 0 THEN num \div den ELSE -((-num) \div den)

\* conversion of a long to int: the low 16 bits, read as two's complement
WrapInt(v) ==
    LET m == v % IntModulus
    IN  IF m >= IntModulus \div 2 THEN m - IntModulus ELSE m

(***************************************************************************)
(* String operations used by processCommand                                *)
(***************************************************************************)
RECURSIVE TrimLeft(_)
TrimLeft(s) ==
    IF s # <<>> /\ IsSpace(Head(s)) THEN TrimLeft(Tail(s)) ELSE s

RECURSIVE TrimRight(_)
TrimRight(s) ==
    IF s # <<>> /\ IsSpace(s[Len(s)])
    THEN TrimRight(SubSeq(s, 1, Len(s) - 1))
    ELSE s

\* String::trim()
Trim(s) == TrimRight(TrimLeft(s))

\* String::indexOf(','): 0-based index of the first comma, -1 when none
IndexOfComma(s) ==
    IF \E i \in 1..Len(s) : s[i] = ","
    THEN (CHOOSE i \in 1..Len(s) : s[i] = "," /\ \A j \in 1..(i - 1) : s[j] # ",") - 1
    ELSE -1

\* String::substring(from, to) and substring(from): 0-based, to exclusive
Substring(s, from, to) == SubSeq(s, from + 1, to)
SubstringFrom(s, from) == SubSeq(s, from + 1, Len(s))

\* value of the leading run of decimal digits of s. atol accumulates it in a
\* long and the int that receives toInt() keeps the low 16 bits of that long;
\* the accumulator holds just these bits (a numeral beyond the range of long
\* is undefined for atol, the host's lines have none).
RECURSIVE DigitRun(_, _)
DigitRun(s, acc) ==
    IF s # <<>> /\ IsDigit(Head(s))
    THEN DigitRun(Tail(s), (acc * 10 + DigitVal(Head(s))) % IntModulus)
    ELSE acc

\* atol(): skip white space, take an optional sign, then the leading digits
Atol(s) ==
    LET t == TrimLeft(s)
    IN  IF t # <<>> /\ Head(t) = "-" THEN -DigitRun(Tail(t), 0)
        ELSE IF t # <<>> /\ Head(t) = "+" THEN DigitRun(Tail(t), 0)
        ELSE DigitRun(t, 0)

\* "int x = s.toInt();": String::toInt() returns the long of atol, the
\* initialisation of an int keeps its low 16 bits
ToInt(s) == WrapInt(Atol(s))

\* constrain without its upper limit
Constrain_NoUpper(amt, low, high) ==
    IF amt < low THEN low ELSE amt

\* constrain(amt, low, high)
Constrain(amt, low, high) ==
    IF amt < low THEN low ELSE IF amt > high THEN high ELSE amt

(***************************************************************************)
(* What the host writes: decimal numerals and lines built from them        *)
(***************************************************************************)
RECURSIVE FmtNat(_)
FmtNat(n) ==
    IF n < 10 THEN <<Digits[n + 1]>>
    ELSE FmtNat(n \div 10) \o <<Digits[(n % 10) + 1]>>

Fmt(n) == IF n < 0 THEN <<"-">> \o FmtNat(-n) ELSE FmtNat(n)

Single(n) == Fmt(n)
Dual(p, y) == Fmt(p) \o <<",">> \o Fmt(y)

RECURSIVE Rep(_, _)
Rep(c, n) == IF n = 0 THEN <<>> ELSE <<c>> \o Rep(c, n - 1)

\* numbers the host puts in single-axis lines
SingleVals == {0, 120, 250}
\* pairs the host puts in dual-axis lines
DualVals == {<<45, 135>>, <<-20, 250>>}
\* lines that are not commands of the grammar
MalformedLines ==
    { <<"h", "e", "l", "l", "o">>,
      <<"9", "0", "a", "b", "c">>,
      <<"1", ",", "2", ",", "3">>,
      <<",", "5">>,
      <<"4", "5", ",">> }
HashLines == { <<"#", "9", "0">> }
BlankLines == { <<" ", " ">> }
PaddedLines == { <<" ", "7", "0", " ">> }
LongLines == { Rep("a", 40), Rep("a", 21) \o Dual(45, 135) }
\* a command of exactly 20 characters: "45,135" with leading zeros
FullLines == { Rep("0", 14) \o Dual(45, 135) }

ValidLines ==
    {Single(n) : n \in SingleVals} \cup {Dual(v[1], v[2]) : v \in DualVals}

Lines ==
    ValidLines \cup MalformedLines \cup HashLines \cup BlankLines
        \cup PaddedLines \cup LongLines \cup FullLines

\* what the host puts on the wire: each line ended by LF, and a line ended by
\* CR, one ended by CR LF and a bare LF
WireLines ==
    {l \o <<LF>> : l \in Lines}
        \cup { Single(120) \o <<CR>>, Dual(45, 135) \o <<CR, LF>>, <<LF>> }

\* the angle a command asks for: its number brought within 0..180
Asked(n) == IF n < 0 THEN 0 ELSE IF n > 180 THEN 180 ELSE n

\* no statement about the targets: the host has sent a line that is no command
NoTargets == <<>>

\* the targets <<pitch, yaw>> the host's commands ask for once the wire line w
\* follows commands asking for e: "n" asks for yaw n, "p,y" (also with leading
\* zeros) for pitch p and yaw y; any other line ends the account
Expect(e, w) ==
    LET l == SelectSeq(w, LAMBDA c : c \notin {CR, LF, " "})
    IN  IF e = NoTargets THEN NoTargets
        ELSE IF \E n \in SingleVals \cup {70} : l = Single(n)
        THEN <<e[1], Asked(CHOOSE n \in SingleVals \cup {70} : l = Single(n))>>
        ELSE IF \E v \in DualVals, k \in {0, 14} : l = Rep("0", k) \o Dual(v[1], v[2])
        THEN LET v == CHOOSE v \in DualVals :
                        \E k \in {0, 14} : l = Rep("0", k) \o Dual(v[1], v[2])
             IN  <<Asked(v[1]), Asked(v[2])>>
        ELSE NoTargets

(***************************************************************************)
(* Initial state: the globals as constructed, before setup() runs          *)
(***************************************************************************)
Init ==
    /\ currentPitch = 90
    /\ currentYaw = 90
    /\ targetPitch = 90
    /\ targetYaw = 90
    /\ inputBuffer = <<>>
    /\ newData = FALSE
    /\ servoPitch = NoWrite
    /\ servoYaw = NoWrite
    /\ wrotePitch = FALSE
    /\ wroteYaw = FALSE
    /\ rx = <<>>
    /\ hostLine = <<>>
    /\ sent = 0
    /\ lastLine = NoLine
    /\ expected = <<Home, Home>>
    /\ pc = "setup"
    /\ received = NoLine
    /\ setting = <<>>
    /\ errors = 0

(***************************************************************************)
(* The host                                                                *)
(***************************************************************************)
\* the host starts to send a line and its terminator
HostStart ==
    /\ hostLine = <<>>
    /\ sent < MaxSent
    /\ \E w \in WireLines : hostLine' = w
    /\ lastLine' = hostLine'
    /\ expected' = Expect(expected, hostLine')
    /\ sent' = sent + 1
    /\ UNCHANGED <<currentPitch, currentYaw, targetPitch, targetYaw,
                   inputBuffer, newData, servoPitch, servoYaw, wrotePitch,
                   wroteYaw, rx, pc, received, setting, errors>>

\* bytes of the line arrive in the receive queue, as many as it has room for
HostBytes ==
    /\ hostLine # <<>>
    /\ Len(rx) < MaxRx
    /\ LET n == IF Len(hostLine) < MaxRx - Len(rx)
                THEN Len(hostLine) ELSE MaxRx - Len(rx)
       IN  /\ rx' = rx \o SubSeq(hostLine, 1, n)
           /\ hostLine' = SubSeq(hostLine, n + 1, Len(hostLine))
    /\ UNCHANGED <<currentPitch, currentYaw, targetPitch, targetYaw,
                   inputBuffer, newData, servoPitch, servoYaw, wrotePitch,
                   wroteYaw, sent, lastLine, expected, pc, received, setting, errors>>

(***************************************************************************)
(* moveToPosition(pitch, yaw) as setup() calls it                          *)
(***************************************************************************)
MoveToPosition(pitch, yaw) ==
    LET p == Constrain(pitch, PITCH_MIN, PITCH_MAX)
        y == Constrain(yaw, YAW_MIN, YAW_MAX)
    IN  /\ servoPitch' = p
        /\ servoYaw' = y
        /\ currentPitch' = p
        /\ currentYaw' = y
        /\ targetPitch' = p
        /\ targetYaw' = y

Setup ==
    /\ pc = "setup"
    /\ MoveToPosition(Home, Home)
    /\ pc' = "read"
    /\ UNCHANGED <<inputBuffer, newData, wrotePitch, wroteYaw, rx, hostLine,
                   sent, lastLine, expected, received, setting, errors>>

(***************************************************************************)
(* readSerialData()                                                        *)
(***************************************************************************)
\* the while loop without the test of the buffer's length
RECURSIVE Drain_NoLimit(_, _, _, _)
Drain_NoLimit(q, buf, nd, err) ==
    IF q = <<>> THEN <<q, buf, nd, err>>
    ELSE LET c == Head(q)
         IN  IF c = LF \/ c = CR
             THEN <<Tail(q), buf, (IF Len(buf) > 0 THEN TRUE ELSE nd), err>>
             ELSE Drain_NoLimit(Tail(q), Append(buf, c), nd, err)

\* the while loop without the return at a terminator
RECURSIVE Drain_NoReturn(_, _, _, _)
Drain_NoReturn(q, buf, nd, err) ==
    IF q = <<>> THEN <<q, buf, nd, err>>
    ELSE LET c == Head(q)
         IN  IF c = LF \/ c = CR
             THEN Drain_NoReturn(Tail(q), buf, (IF Len(buf) > 0 THEN TRUE ELSE nd), err)
             ELSE LET b == Append(buf, c)
                  IN  IF Len(b) > BufferLimit
                      THEN Drain_NoReturn(Tail(q), <<>>, nd, err + 1)
                      ELSE Drain_NoReturn(Tail(q), b, nd, err)

\* the while loop raising newData at every terminator, empty buffer or not
RECURSIVE Drain_FlagAlways(_, _, _, _)
Drain_FlagAlways(q, buf, nd, err) ==
    IF q = <<>> THEN <<q, buf, nd, err>>
    ELSE LET c == Head(q)
         IN  IF c = LF \/ c = CR
             THEN <<Tail(q), buf, TRUE, err>>
             ELSE LET b == Append(buf, c)
                  IN  IF Len(b) > BufferLimit
                      THEN Drain_FlagAlways(Tail(q), <<>>, nd, err + 1)
                      ELSE Drain_FlagAlways(Tail(q), b, nd, err)

\* the while loop discarding the buffer as soon as it holds 20 characters
RECURSIVE Drain_EarlyLimit(_, _, _, _)
Drain_EarlyLimit(q, buf, nd, err) ==
    IF q = <<>> THEN <<q, buf, nd, err>>
    ELSE LET c == Head(q)
         IN  IF c = LF \/ c = CR
             THEN <<Tail(q), buf, (IF Len(buf) > 0 THEN TRUE ELSE nd), err>>
             ELSE LET b == Append(buf, c)
                  IN  IF Len(b) >= BufferLimit
                      THEN Drain_EarlyLimit(Tail(q), <<>>, nd, err + 1)
                      ELSE Drain_EarlyLimit(Tail(q), b, nd, err)

\* the while loop, as the state <<queue, buffer, newData, errors>> it returns with
RECURSIVE Drain(_, _, _, _)
Drain(q, buf, nd, err) ==
    IF q = <<>> THEN <<q, buf, nd, err>>
    ELSE LET c == Head(q)
         IN  IF c = LF \/ c = CR
             THEN <<Tail(q), buf, (IF Len(buf) > 0 THEN TRUE ELSE nd), err>>
             ELSE LET b == Append(buf, c)
                  IN  IF Len(b) > BufferLimit
                      THEN Drain(Tail(q), <<>>, nd, err + 1)
                      ELSE Drain(Tail(q), b, nd, err)

ReadSerialData ==
    /\ pc = "read"
    /\ LET r == Drain(rx, inputBuffer, newData, errors)
       IN  /\ rx' = r[1]
           /\ inputBuffer' = r[2]
           /\ newData' = r[3]
           /\ errors' = r[4]
    /\ pc' = "process"
    /\ UNCHANGED <<currentPitch, currentYaw, targetPitch, targetYaw,
                   servoPitch, servoYaw, wrotePitch, wroteYaw, hostLine, sent,
                   lastLine, expected, received, setting>>

(***************************************************************************)
(* processCommand(command)                                                 *)
(***************************************************************************)
\* the single-value branch storing its value in targetPitch
SingleTargets_Pitch(command, tp, ty) ==
    LET pitch == ToInt(command)
    IN  <<Constrain(pitch, PITCH_MIN, PITCH_MAX), ty>>

\* the single-value branch: <<targetPitch, targetYaw>> after it
SingleTargets(command, tp, ty) ==
    LET yaw == ToInt(command)
    IN  <<tp, Constrain(yaw, YAW_MIN, YAW_MAX)>>

\* the two-value branch reading yaw before the comma and pitch after it
DualTargets_Swapped(command, commaIndex, tp, ty) ==
    LET yaw == ToInt(Substring(command, 0, commaIndex))
        pitch == ToInt(SubstringFrom(command, commaIndex + 1))
    IN  <<Constrain(pitch, PITCH_MIN, PITCH_MAX), Constrain(yaw, YAW_MIN, YAW_MAX)>>

\* the two-value branch without its assignment to targetYaw
DualTargets_PitchOnly(command, commaIndex, tp, ty) ==
    LET pitch == ToInt(Substring(command, 0, commaIndex))
    IN  <<Constrain(pitch, PITCH_MIN, PITCH_MAX), ty>>

\* the two-value branch: <<targetPitch, targetYaw>> after it
DualTargets(command, commaIndex, tp, ty) ==
    LET pitch == ToInt(Substring(command, 0, commaIndex))
        yaw == ToInt(SubstringFrom(command, commaIndex + 1))
    IN  <<Constrain(pitch, PITCH_MIN, PITCH_MAX), Constrain(yaw, YAW_MIN, YAW_MAX)>>

\* the "# Setting ..." diagnostic printing the parsed integers, not the targets
Echo_Parsed(command, commaIndex, t) ==
    IF commaIndex = -1
    THEN <<ToInt(command)>>
    ELSE <<ToInt(Substring(command, 0, commaIndex)),
           ToInt(SubstringFrom(command, commaIndex + 1))>>

\* the integers of the "# Setting ..." diagnostic: Serial.print(targetPitch),
\* Serial.println(targetYaw) after the assignments t to the targets
Echo(command, commaIndex, t) ==
    IF commaIndex = -1 THEN <<t[2]>> ELSE <<t[1], t[2]>>

ProcessCommand(arg) ==
    LET command == Trim(arg)
        commaIndex == IndexOfComma(command)
    IN  IF Len(command) = 0
        THEN UNCHANGED <<targetPitch, targetYaw, received, setting>>
        ELSE /\ received' = command
             /\ IF commaIndex = -1
                THEN LET t == SingleTargets(command, targetPitch, targetYaw)
                     IN  /\ targetPitch' = t[1]
                         /\ targetYaw' = t[2]
                         /\ setting' = Echo(command, commaIndex, t)
                ELSE LET t == DualTargets(command, commaIndex, targetPitch, targetYaw)
                     IN  /\ targetPitch' = t[1]
                         /\ targetYaw' = t[2]
                         /\ setting' = Echo(command, commaIndex, t)

\* the dispatch without "newData = false;"
Dispatch_KeepFlag ==
    /\ pc = "process"
    /\ newData
    /\ ProcessCommand(inputBuffer)
    /\ newData' = newData
    /\ inputBuffer' = <<>>
    /\ pc' = "update"
    /\ UNCHANGED <<currentPitch, currentYaw, servoPitch, servoYaw, wrotePitch,
                   wroteYaw, rx, hostLine, sent, lastLine, expected, errors>>

\* the dispatch without 'inputBuffer = "";'
Dispatch_NoClear ==
    /\ pc = "process"
    /\ newData
    /\ ProcessCommand(inputBuffer)
    /\ newData' = FALSE
    /\ inputBuffer' = inputBuffer
    /\ pc' = "update"
    /\ UNCHANGED <<currentPitch, currentYaw, servoPitch, servoYaw, wrotePitch,
                   wroteYaw, rx, hostLine, sent, lastLine, expected, errors>>

\* loop(): "if (newData) { processCommand(inputBuffer); newData = false; inputBuffer = ""; }"
Dispatch ==
    /\ pc = "process"
    /\ newData
    /\ ProcessCommand(inputBuffer)
    /\ newData' = FALSE
    /\ inputBuffer' = <<>>
    /\ pc' = "update"
    /\ UNCHANGED <<currentPitch, currentYaw, servoPitch, servoYaw, wrotePitch,
                   wroteYaw, rx, hostLine, sent, lastLine, expected, errors>>

\* loop(): newData is false, nothing is dispatched
NoDispatch ==
    /\ pc = "process"
    /\ ~newData
    /\ pc' = "update"
    /\ UNCHANGED <<currentPitch, currentYaw, targetPitch, targetYaw,
                   inputBuffer, newData, servoPitch, servoYaw, wrotePitch,
                   wroteYaw, rx, hostLine, sent, lastLine, expected, received, setting,
                   errors>>

(***************************************************************************)
(* updateServos()                                                          *)
(***************************************************************************)
\* the smoothing step with the sign of the error reversed
Smoothed_Away(current, target) ==
    TruncDiv(current * SmoothDen - (target - current) * SmoothNum, SmoothDen)

\* the smoothing step converted to int by rounding to the nearest integer
\* (the values are not negative)
Smoothed_Nearest(current, target) ==
    (2 * (current * SmoothDen + (target - current) * SmoothNum) + SmoothDen)
        \div (2 * SmoothDen)

\* the smoothing step with the factor 2: the value as far beyond the target
\* as current is short of it
Smoothed_Reflect(current, target) ==
    TruncDiv(current * SmoothDen + (target - current) * 2 * SmoothDen, SmoothDen)

\* the smoothing step with a factor above 1, 1 + SMOOTHING_FACTOR
Smoothed_Overshoot(current, target) ==
    TruncDiv(current * SmoothDen + (target - current) * (SmoothDen + SmoothNum),
             SmoothDen)

\* "int n = current + (target - current) * SMOOTHING_FACTOR;": the float
\* current + (target - current)/5 converted to int
Smoothed(current, target) ==
    TruncDiv(current * SmoothDen + (target - current) * SmoothNum, SmoothDen)

\* the threshold test passing every step, that of size 0 included
Moves_Any(n, current) == Abs(n - current) >= 0

\* the threshold test with >= for >
Moves_AtLeast(n, current) == Abs(n - current) >= JitterThreshold

\* "abs(n - current) > 1"
Moves(n, current) == Abs(n - current) > JitterThreshold

\* updateServos writing the smoothed value on every tick, outside the tests
UpdateServos_AlwaysWrite ==
    /\ pc = "update"
    /\ LET newPitch == Smoothed(currentPitch, targetPitch)
           newYaw == Smoothed(currentYaw, targetYaw)
       IN  /\ currentPitch' = IF Moves(newPitch, currentPitch)
                              THEN newPitch ELSE currentPitch
           /\ servoPitch' = newPitch
           /\ wrotePitch' = TRUE
           /\ currentYaw' = IF Moves(newYaw, currentYaw)
                            THEN newYaw ELSE currentYaw
           /\ servoYaw' = newYaw
           /\ wroteYaw' = TRUE
    /\ pc' = "read"
    /\ UNCHANGED <<targetPitch, targetYaw, inputBuffer, newData, rx, hostLine,
                   sent, lastLine, expected, received, setting, errors>>

UpdateServos ==
    /\ pc = "update"
    /\ LET newPitch == Smoothed(currentPitch, targetPitch)
           newYaw == Smoothed(currentYaw, targetYaw)
       IN  /\ IF Moves(newPitch, currentPitch)
              THEN /\ currentPitch' = newPitch
                   /\ servoPitch' = newPitch
                   /\ wrotePitch' = TRUE
              ELSE /\ UNCHANGED <<currentPitch, servoPitch>>
                   /\ wrotePitch' = FALSE
           /\ IF Moves(newYaw, currentYaw)
              THEN /\ currentYaw' = newYaw
                   /\ servoYaw' = newYaw
                   /\ wroteYaw' = TRUE
              ELSE /\ UNCHANGED <<currentYaw, servoYaw>>
                   /\ wroteYaw' = FALSE
    /\ pc' = "read"
    /\ UNCHANGED <<targetPitch, targetYaw, inputBuffer, newData, rx, hostLine,
                   sent, lastLine, expected, received, setting, errors>>

Next ==
    \/ HostStart
    \/ HostBytes
    \/ Setup
    \/ ReadSerialData
    \/ Dispatch
    \/ NoDispatch
    \/ UpdateServos

Spec == Init /\ [][Next]_vars

(***************************************************************************)
(* The interpreter on its own: a line has been read into the buffer while  *)
(* both axes rest, the loop dispatches it and runs on without more input.  *)
(***************************************************************************)
\* numbers of the lines: around the limits of the axes and of int, and beyond
ParseVals ==
    {-32768, -181, -20, -1, 0, 1, 45, 120, 179, 180, 181, 250, 32767, 40000}
\* positions the axes rest at when the line comes in
RestPoints == {45, 90, 135}

ParseLines ==
    {Single(n) : n \in ParseVals}
        \cup {Dual(p, y) : p \in ParseVals, y \in ParseVals}
        \cup {<<" ">> \o Single(70) \o <<" ">>, <<" ">> \o Dual(45, 135)}

InitParse ==
    /\ currentPitch \in RestPoints
    /\ currentYaw \in RestPoints
    /\ targetPitch = currentPitch
    /\ targetYaw = currentYaw
    /\ servoPitch = currentPitch
    /\ servoYaw = currentYaw
    /\ inputBuffer \in ParseLines
    /\ newData = TRUE
    /\ wrotePitch = FALSE
    /\ wroteYaw = FALSE
    /\ rx = <<>>
    /\ hostLine = <<>>
    /\ sent = MaxSent
    /\ lastLine = inputBuffer \o <<LF>>
    /\ expected = NoTargets
    /\ pc = "process"
    /\ received = NoLine
    /\ setting = <<>>
    /\ errors = 0

NextLoop ==
    \/ ReadSerialData
    \/ Dispatch
    \/ NoDispatch
    \/ UpdateServos

ParseSpec == InitParse /\ [][NextLoop]_vars

(***************************************************************************)
(* The smoother on its own: one axis stands at any position the ticks can  *)
(* bring it to, its target is anywhere within the limits, the other axis   *)
(* rests at home, and the loop runs without input.                         *)
(***************************************************************************)
\* where one tick takes an axis
Ticked(current, target) ==
    IF Moves(Smoothed(current, target), current)
    THEN Smoothed(current, target)
    ELSE current

\* the positions within the limits that ticks reach from those of S
RECURSIVE TickClosure(_)
TickClosure(S) ==
    LET N == S \cup ({Ticked(c, t) : c \in S, t \in YAW_MIN..YAW_MAX}
                        \cap (YAW_MIN..YAW_MAX))
    IN  IF N = S THEN S ELSE TickClosure(N)

ReachablePositions == TickClosure({Home})

InitSmooth ==
    /\ \/ /\ currentPitch \in ReachablePositions
          /\ targetPitch \in PITCH_MIN..PITCH_MAX
          /\ currentYaw = Home
          /\ targetYaw = Home
          /\ received = Dual(targetPitch, Home)
          /\ setting = <<targetPitch, Home>>
       \/ /\ currentYaw \in ReachablePositions
          /\ targetYaw \in YAW_MIN..YAW_MAX
          /\ currentPitch = Home
          /\ targetPitch = Home
          /\ received = Single(targetYaw)
          /\ setting = <<targetYaw>>
    /\ servoPitch = currentPitch
    /\ servoYaw = currentYaw
    /\ inputBuffer = <<>>
    /\ newData = FALSE
    /\ wrotePitch = FALSE
    /\ wroteYaw = FALSE
    /\ rx = <<>>
    /\ hostLine = <<>>
    /\ sent = MaxSent
    /\ lastLine = received \o <<LF>>
    /\ expected = <<targetPitch, targetYaw>>
    /\ pc = "update"
    /\ errors = 0

NextIdle ==
    \/ ReadSerialData
    \/ NoDispatch
    \/ UpdateServos

SmoothSpec == InitSmooth /\ [][NextIdle]_vars

\* the same with the loop running for ever: the core calls loop() again each
\* time it returns ("for (;;) loop();"), and each of its steps terminates
SmoothLive == SmoothSpec /\ WF_vars(NextIdle)

(***************************************************************************)
(* Two commands in the queue: the device is homed and both lines of the    *)
(* host, each with its terminator, are in the receive queue before loop()  *)
(* reads the first byte; nothing is received after that.                   *)
(***************************************************************************)
QueuedNums == {0, 120, 180}
Terminators == { <<LF>>, <<CR>>, <<CR, LF>> }

InitQueued ==
    /\ currentPitch = Home
    /\ currentYaw = Home
    /\ targetPitch = Home
    /\ targetYaw = Home
    /\ servoPitch = Home
    /\ servoYaw = Home
    /\ inputBuffer = <<>>
    /\ newData = FALSE
    /\ wrotePitch = FALSE
    /\ wroteYaw = FALSE
    /\ \E a \in QueuedNums, b \in QueuedNums, s \in Terminators, t \in Terminators :
          /\ rx = Single(a) \o s \o Single(b) \o t
          /\ lastLine = Single(b) \o t
          /\ expected = <<Home, Asked(b)>>
    /\ Len(rx) <= MaxRx
    /\ hostLine = <<>>
    /\ sent = 2
    /\ pc = "read"
    /\ received = NoLine
    /\ setting = <<>>
    /\ errors = 0

QueueSpec == InitQueued /\ [][NextLoop]_vars

(***************************************************************************)
(* Properties                                                              *)
(***************************************************************************)
\* the limits of an axis as the specification states them
InLimits(d) == 0 <= d /\ d <= 180
Clamped(n) == IF n < 0 THEN 0 ELSE IF n > 180 THEN 180 ELSE n
InIntRange(n) == -32768 <= n /\ n <= 32767

\* numbers of the single-axis lines, that of the padded line " 70 " included
SingleNums == ParseVals \cup {70}

\* this step is the dispatch of a line that reads l once trimmed
Dispatching(l) ==
    pc = "process" /\ newData /\ pc' = "update" /\ Trim(inputBuffer) = l

\* this step is one execution of updateServos
Ticking == pc = "update" /\ pc' = "read"

\* C1 (P1 Clamping): at every tick boundary, after setup and after each loop
\* iteration, current and target of both axes lie in 0..180.
C1_Clamping ==
    pc = "read" =>
        /\ InLimits(currentPitch) /\ InLimits(targetPitch)
        /\ InLimits(currentYaw) /\ InLimits(targetYaw)

\* C1 witness: "250" was dispatched, the yaw target sits at the upper limit and
\* yaw has moved from home towards it.
C1_Witness ==
    /\ pc = "read"
    /\ received = Single(250)
    /\ targetYaw = 180
    /\ currentYaw > 90

\* C2 (dual-axis command): dispatching a valid line "p,y" with p and y in the
\* range of int sets pitch.target to p clamped to 0..180 and yaw.target to y
\* clamped to 0..180.
C2_DualCommand ==
    [][\A p \in ParseVals, y \in ParseVals :
          (InIntRange(p) /\ InIntRange(y) /\ Dispatching(Dual(p, y)))
              => /\ targetPitch' = Clamped(p)
                 /\ targetYaw' = Clamped(y)]_vars

\* C2 witness: "-20,250" was dispatched with both targets at 90 and gave
\* pitch.target 0, yaw.target 180.
C2_Witness ==
    /\ received = Dual(-20, 250)
    /\ currentPitch = 90 /\ currentYaw = 90
    /\ setting = <<0, 180>>
    /\ targetPitch = 0
    /\ targetYaw = 180

Resting ==
    /\ ~Moves(Smoothed(currentPitch, targetPitch), currentPitch)
    /\ ~Moves(Smoothed(currentYaw, targetYaw), currentYaw)

\* C4 (P2 Convergence): with no new input every axis ends within the jitter
\* deadband of its target: once the input is used up and the ticks write no
\* more, |current - target| <= 1 on both axes.
C4_Convergence ==
    (/\ pc = "read" /\ sent > 0 /\ hostLine = <<>> /\ rx = <<>>
     /\ inputBuffer = <<>> /\ Resting)
        => /\ Abs(currentPitch - targetPitch) <= 1
           /\ Abs(currentYaw - targetYaw) <= 1

\* C5 (P3 Monotone approach): across a tick, which leaves the targets as they
\* are, |current - target| of an axis does not grow.
C5_Monotone ==
    [][Ticking =>
          /\ Abs(currentPitch' - targetPitch') <= Abs(currentPitch - targetPitch)
          /\ Abs(currentYaw' - targetYaw') <= Abs(currentYaw - targetYaw)]_vars

\* C5 witness: the first tick after "120" from home has moved yaw to 96.
C5_Witness ==
    /\ pc = "read"
    /\ wroteYaw
    /\ targetYaw = 120
    /\ currentYaw = 96

\* the value the smoother computes on a tick, from the specification:
\* current + (target - current) * 0.2 with the fraction dropped
NextOf(current, target) == (4 * current + target) \div 5

\* C6 (P4 No spurious writes): in steady state a tick writes an axis's servo
\* only if |next - current| > 1 for the value next it computes; otherwise it
\* leaves current as it is and writes nothing.
C6_NoSpuriousWrites ==
    [][Ticking =>
          /\ wrotePitch' => Abs(NextOf(currentPitch, targetPitch) - currentPitch) > 1
          /\ wroteYaw' => Abs(NextOf(currentYaw, targetYaw) - currentYaw) > 1
          /\ ~(Abs(NextOf(currentPitch, targetPitch) - currentPitch) > 1)
                => /\ currentPitch' = currentPitch
                   /\ servoPitch' = servoPitch
                   /\ ~wrotePitch'
          /\ ~(Abs(NextOf(currentYaw, targetYaw) - currentYaw) > 1)
                => /\ currentYaw' = currentYaw
                   /\ servoYaw' = servoYaw
                   /\ ~wroteYaw']_vars

\* C6 witness: a tick has run with yaw at 111 and its target at 120 (next is
\* 112) and has written nothing to the yaw servo.
C6_Witness ==
    /\ pc = "read"
    /\ targetYaw = 120
    /\ currentYaw = 111
    /\ servoYaw = 111
    /\ ~wroteYaw

\* C7 (P5 Atomic dual-axis update): when updateServos is about to run after a
\* valid "p,y" line was dispatched, both targets carry the values of that line,
\* never one of them together with the old value of the other.
C7_AtomicDual ==
    \A v \in DualVals :
        (pc = "update" /\ received = Dual(v[1], v[2]))
            => /\ targetPitch = Clamped(v[1])
               /\ targetYaw = Clamped(v[2])

\* C7 witness: updateServos is about to run for the first time after "-20,250"
\* replaced the targets 90, 90: both axes are still at home and both targets new.
C7_Witness ==
    /\ pc = "update"
    /\ received = Dual(-20, 250)
    /\ currentPitch = 90 /\ currentYaw = 90
    /\ targetPitch = 0 /\ targetYaw = 180

\* C8 (malformed lines are ignored): dispatching a line with non-numeric
\* content, trailing garbage, more than one comma or an empty integer field
\* changes neither target.
C8_MalformedIgnored ==
    [][\A l \in MalformedLines :
          Dispatching(l) => /\ targetPitch' = targetPitch
                            /\ targetYaw' = targetYaw]_vars

\* C9 (over-length line): when the one line the host has sent is longer than
\* 20 characters, the diagnostic is emitted once the line is in, nothing of it
\* is dispatched and both targets stay as setup left them.
C9_OverLength ==
    (sent = 1 /\ \E l \in LongLines : lastLine = l \o <<LF>>)
        => /\ received = NoLine
           /\ targetPitch = Home /\ targetYaw = Home
           /\ (pc = "process" /\ hostLine = <<>> /\ rx = <<>>) => errors >= 1

\* C10 ('#' lines): dispatching a line whose first character is '#' changes
\* neither target.
C10_HashIgnored ==
    [][\A l \in HashLines :
          Dispatching(l) => /\ targetPitch' = targetPitch
                            /\ targetYaw' = targetYaw]_vars


\* C11 (P6 Round-trip): after a valid command line the integers of the
\* "# Setting ..." diagnostic are the values the command stored in the targets,
\* which lie within the limits: yaw for the single-axis form, pitch and yaw for
\* the dual-axis form.
C11_RoundTrip ==
    /\ \A n \in SingleNums :
          received = Single(n)
              => /\ setting = <<targetYaw>>
                 /\ InLimits(setting[1])
    /\ \A p \in ParseVals, y \in ParseVals :
          received = Dual(p, y)
              => /\ setting = <<targetPitch, targetYaw>>
                 /\ InLimits(setting[1]) /\ InLimits(setting[2])

\* C11 witness: "-1,181" was dispatched; the diagnostic shows 0 and 180, the
\* values now in the targets, not the integers of the line.
C11_Witness ==
    /\ received = Dual(-1, 181)
    /\ setting = <<0, 180>>
    /\ targetPitch = 0
    /\ targetYaw = 180

\* C12 (buffer bound): whenever readSerialData has returned, the receive
\* buffer holds at most 20 characters.
C12_BufferBound == Len(inputBuffer) <= 20

\* C12 witness: a line of exactly 20 characters has been read in, the buffer
\* is full and the line is ready.
C12_Witness ==
    /\ pc = "process"
    /\ newData
    /\ Len(inputBuffer) = 20

\* C13 (current is what was written): at every tick boundary from the end of
\* the homing write on, current of each axis is the value last passed to that
\* axis's servo write.
C13_CurrentIsWritten ==
    pc # "setup" => /\ currentPitch = servoPitch
                    /\ currentYaw = servoYaw

\* C13 witness: the first tick after "250" from home has written 108 to the
\* yaw servo, and 108 is yaw's current.
C13_Witness ==
    /\ pc = "read"
    /\ wroteYaw
    /\ targetYaw = 180
    /\ servoYaw = 108
    /\ currentYaw = 108

\* position of the first terminator in the queue q, 0 when it has none
FirstTerm(q) ==
    IF \E i \in 1..Len(q) : q[i] \in {CR, LF}
    THEN CHOOSE i \in 1..Len(q) :
            q[i] \in {CR, LF} /\ \A j \in 1..(i - 1) : q[j] \notin {CR, LF}
    ELSE 0

\* C14 (one command per iteration): readSerialData takes the queue up to its
\* first terminator and leaves all that follows queued, also when that holds
\* further complete lines; the dispatch, the only step that hands a line to
\* processCommand, then consumes that one line and leaves the queue alone, and
\* so does the tick.
C14_OnePerIteration ==
    [][/\ (pc = "read" /\ pc' = "process" /\ FirstTerm(rx) > 0)
            => rx' = SubSeq(rx, FirstTerm(rx) + 1, Len(rx))
       /\ (pc = "process" /\ pc' = "update")
            => /\ rx' = rx
               /\ ~newData'
       /\ (pc # "process")
            => /\ received' = received
               /\ targetPitch' = targetPitch
               /\ targetYaw' = targetYaw]_vars

\* C14 witness: readSerialData has returned with the line "0" ready while the
\* complete line "120" is still in the queue.
C14_Witness ==
    /\ pc = "process"
    /\ newData
    /\ inputBuffer = Single(0)
    /\ rx = Single(120) \o <<LF>>

\* the host has sent the single-axis lines "a" then "b"; "a" has been
\* dispatched and no tick has run since (yaw still stands at home), "b" waits
\* complete in the queue: both arrived before the tick that comes now
TwoBeforeTick(a, b) ==
    /\ pc = "update"
    /\ sent = 2
    /\ received = Single(a)
    /\ lastLine = Single(b) \o <<LF>>
    /\ rx = Single(b) \o <<LF>>
    /\ hostLine = <<>>
    /\ currentYaw = Home
    /\ servoYaw = Home

\* C15 (supersession) as stated: when two commands for yaw both arrive between
\* two ticks, the first target causes no motion: the tick that follows leaves
\* yaw where it is and writes nothing.
C15_Supersession ==
    [][\A a \in SingleVals, b \in SingleVals :
          (a # b /\ TwoBeforeTick(a, b) /\ Ticking)
              => /\ currentYaw' = currentYaw
                 /\ ~wroteYaw']_vars

\* C15 amended: the tick observes the target of the command dispatched last,
\* and one command is dispatched per loop iteration: when two commands for yaw
\* both arrive between two ticks, the tick that follows runs against the first
\* target and moves yaw one smoothing step towards it, while the second
\* command is still queued.
C15_StepTowardFirst ==
    [][\A a \in SingleVals, b \in SingleVals :
          (a # b /\ TwoBeforeTick(a, b) /\ Ticking)
              => /\ targetYaw = Clamped(a)
                 /\ currentYaw' = NextOf(Home, Clamped(a))
                 /\ servoYaw' = currentYaw'
                 /\ wroteYaw'
                 /\ rx' = rx]_vars

\* C15 witness: "250" and "0" arrived together; the tick after the dispatch of
\* "250" has moved yaw from 90 to 108, "0" is still in the queue.
C15_Witness ==
    /\ pc = "read"
    /\ sent = 2
    /\ received = Single(250)
    /\ rx = Single(0) \o <<LF>>
    /\ targetYaw = 180
    /\ currentYaw = 108
    /\ wroteYaw

\* C16 (arrival order): when the host has sent valid commands only and all of
\* their bytes have been read and dispatched, each target is what the last
\* command addressing that axis asked for, clamped.
C16_ArrivalOrder ==
    (/\ expected # NoTargets
     /\ sent > 0 /\ hostLine = <<>> /\ rx = <<>>
     /\ pc \in {"update", "read"})
        => /\ targetPitch = expected[1]
           /\ targetYaw = expected[2]

\* C16 witness: "45,135" then "120" were sent and consumed; pitch.target is
\* that of the first line, yaw.target that of the second.
C16_Witness ==
    /\ sent = 2 /\ hostLine = <<>> /\ rx = <<>>
    /\ pc = "update"
    /\ received = Single(120)
    /\ expected = <<45, 120>>
    /\ targetPitch = 45
    /\ targetYaw = 120

\* C17 (terminator on an empty buffer): readSerialData meeting a CR or LF
\* while the buffer is empty consumes that byte alone, raises no flag and
\* leaves the buffer empty; the loop step that follows an unraised flag
\* dispatches nothing and changes no target; hence a line sent alone is
\* dispatched at most once, whether it ends in CR, LF or CR LF.
C17_EmptyTerminator ==
    [][/\ (/\ pc = "read" /\ pc' = "process"
           /\ inputBuffer = <<>> /\ rx # <<>> /\ Head(rx) \in {CR, LF})
            => /\ rx' = Tail(rx)
               /\ ~newData'
               /\ inputBuffer' = <<>>
               /\ received' = received
               /\ targetPitch' = targetPitch
               /\ targetYaw' = targetYaw
       /\ (pc = "process" /\ pc' = "update" /\ ~newData)
            => /\ received' = received
               /\ setting' = setting
               /\ targetPitch' = targetPitch
               /\ targetYaw' = targetYaw
       /\ (pc = "process" /\ pc' = "update" /\ newData /\ sent = 1)
            => /\ inputBuffer # <<>>
               /\ received = NoLine]_vars

\* C17 witness: "45,135" CR LF was sent alone; the CR had it dispatched, the LF
\* has been read on the empty buffer and raised no flag.
C17_Witness ==
    /\ pc = "process"
    /\ ~newData
    /\ inputBuffer = <<>>
    /\ sent = 1 /\ hostLine = <<>> /\ rx = <<>>
    /\ lastLine = Dual(45, 135) \o <<CR, LF>>
    /\ received = Dual(45, 135)
    /\ targetPitch = 45
    /\ targetYaw = 135

\* C18 (clamping beyond the range of int): dispatching a valid line sets each
\* addressed target to the line's number clamped to 0..180 whatever the
\* number's magnitude, also when it lies outside -32768..32767.
C18_ClampBeyondInt ==
    [][/\ \A n \in SingleNums :
            Dispatching(Single(n)) => targetYaw' = Clamped(n)
       /\ \A p \in ParseVals, y \in ParseVals :
            Dispatching(Dual(p, y))
                => /\ targetPitch' = Clamped(p)
                   /\ targetYaw' = Clamped(y)]_vars

\* x lies between a and b, both included
Between(a, x, b) == (a <= x /\ x <= b) \/ (b <= x /\ x <= a)

\* C19 (no overshoot): across a tick the new current of an axis lies between
\* the old current and the target, both included, and the error target -
\* current does not change sign.
C19_NoOvershoot ==
    [][Ticking =>
          /\ Between(currentPitch, currentPitch', targetPitch)
          /\ Between(currentYaw, currentYaw', targetYaw)
          /\ (targetPitch - currentPitch) * (targetPitch' - currentPitch') >= 0
          /\ (targetYaw - currentYaw) * (targetYaw' - currentYaw') >= 0]_vars

\* C19 witness: a tick with yaw at 90 and its target at 0 has moved yaw down
\* to 72, short of the target.
C19_Witness ==
    /\ pc = "read"
    /\ wroteYaw
    /\ targetYaw = 0
    /\ currentYaw = 72
    /\ servoYaw = 72

\* the bytes of q ahead of its first terminator, all of q if it has none
LineBytes(q) ==
    IF FirstTerm(q) > 0 THEN SubSeq(q, 1, FirstTerm(q) - 1) ELSE q

\* the last n elements of s
LastN(s, n) == SubSeq(s, Len(s) - n + 1, Len(s))

\* C20 (overflow event): one run of readSerialData, with the buffer followed
\* by the queued bytes of the line making n characters, emits a diagnostic
\* exactly when n exceeds 20, one for each 21st character; each empties the
\* buffer, that character included, so the buffer then holds the n mod 21
\* characters behind the last of them, starting with the first byte received
\* after it; an overflow raises no flag, which only a terminator reached with
\* a non-empty buffer does.
C20_OverflowEvent ==
    [][(pc = "read" /\ pc' = "process") =>
          LET all == inputBuffer \o LineBytes(rx)
              n == Len(all)
          IN  /\ (errors' > errors) <=> (n > 20)
              /\ errors' = errors + (n \div 21)
              /\ inputBuffer' = LastN(all, n % 21)
              /\ newData' = (newData \/ (FirstTerm(rx) > 0 /\ n % 21 > 0))]_vars

\* C20 witness: of the line of 21 letters followed by "45,135" the 21st letter
\* overflowed the buffer: one diagnostic, no flag, and the buffer holds what
\* has been read of "45,135", starting with its first character.
C20_Witness ==
    /\ pc = "process"
    /\ sent = 1
    /\ lastLine = Rep("a", 21) \o Dual(45, 135) \o <<LF>>
    /\ errors = 1
    /\ ~newData
    /\ inputBuffer # <<>>
    /\ Len(inputBuffer) <= 6
    /\ inputBuffer = SubSeq(Dual(45, 135), 1, Len(inputBuffer))

\* C21 (halting): a tick that finds an axis with target = current leaves that
\* axis alone: current and the servo's position stay and nothing is written;
\* target and current are then still equal, so this repeats tick after tick
\* for as long as no command changes the target.
C21_Halting ==
    [][Ticking =>
          /\ (targetPitch = currentPitch)
                => /\ currentPitch' = currentPitch
                   /\ servoPitch' = servoPitch
                   /\ ~wrotePitch'
                   /\ targetPitch' = currentPitch'
          /\ (targetYaw = currentYaw)
                => /\ currentYaw' = currentYaw
                   /\ servoYaw' = servoYaw
                   /\ ~wroteYaw'
                   /\ targetYaw' = currentYaw']_vars

\* C21 witness: yaw was on its way at 100, away from home, when its target
\* became 100; a tick has run and has written nothing to the yaw servo.
C21_Witness ==
    /\ pc = "read"
    /\ received = Single(100)
    /\ targetYaw = 100
    /\ currentYaw = 100
    /\ servoYaw = 100
    /\ ~wroteYaw

\* C22 (bounded motion toward a superseded target): with two commands "a" and
\* "b" for yaw in the queue before the first is dispatched, at most one tick
\* runs against the first target: while "a" is the latest command applied yaw
\* is at home or one smoothing step from it; once "b" is applied yaw.target is
\* b clamped; and with "180" then "0" the yaw servo is never written above 108.
C22_BoundedMotion ==
    \A a \in QueuedNums, b \in QueuedNums :
        (a # b /\ \E t \in Terminators : lastLine = Single(b) \o t)
            => /\ received = Single(a)
                    => /\ currentYaw \in {Home, NextOf(Home, Clamped(a))}
                       /\ servoYaw \in {Home, NextOf(Home, Clamped(a))}
               /\ received = Single(b) => targetYaw = Clamped(b)
               /\ (a = 180 /\ b = 0 /\ received # NoLine) => servoYaw <= 108

\* C23 (quiescence): with no further bytes received the loop, running for
\* ever, reaches a point from which no tick writes a servo and no tick would:
\* both current values stay as they are for good.
C23_Quiescence ==
    <>[](/\ Resting
         /\ pc = "read" => (~wrotePitch /\ ~wroteYaw))

\* C23 witness: yaw has come down toward 0, stands at 4 and the tick that
\* just ran wrote nothing; the next would compute 3 and write nothing either.
C23_Witness ==
    /\ pc = "read"
    /\ targetYaw = 0
    /\ currentYaw = 4
    /\ servoYaw = 4
    /\ ~wroteYaw
    /\ Resting

\* the resting band: an axis at distance d = target - current moves on a tick
\* exactly when d >= 10 or d <= -6
OutsideBand(current, target) ==
    target - current >= 10 \/ current - target >= 6

\* C24 (resting band): a tick writes an axis and changes its current if and
\* only if target - current >= 10 or current - target >= 6; with
\* -5 <= target - current <= 9 it leaves the axis as it is.
C24_RestingBand ==
    [][Ticking =>
          /\ wrotePitch' <=> OutsideBand(currentPitch, targetPitch)
          /\ (currentPitch' # currentPitch) <=> OutsideBand(currentPitch, targetPitch)
          /\ wroteYaw' <=> OutsideBand(currentYaw, targetYaw)
          /\ (currentYaw' # currentYaw) <=> OutsideBand(currentYaw, targetYaw)
          /\ (-5 <= targetYaw - currentYaw /\ targetYaw - currentYaw <= 9)
                => /\ servoYaw' = servoYaw
                   /\ currentYaw' = currentYaw
          /\ (-5 <= targetPitch - currentPitch /\ targetPitch - currentPitch <= 9)
                => /\ servoPitch' = servoPitch
                   /\ currentPitch' = currentPitch]_vars

\* C24 witness: with its target at 100 yaw has just been moved down to 104,
\* which a tick does from 106 only, 6 above the target; from 104 it moves no
\* further.
C24_Witness ==
    /\ pc = "read"
    /\ targetYaw = 100
    /\ currentYaw = 104
    /\ servoYaw = 104
    /\ wroteYaw
    /\ ~OutsideBand(currentYaw, targetYaw)

\* what follows the first terminator of q
AfterTerm(q) == SubSeq(q, FirstTerm(q) + 1, Len(q))

\* q is the start of r
IsPrefix(q, r) == Len(q) <= Len(r) /\ q = SubSeq(r, 1, Len(q))

\* C25 (line integrity):
\*  - readSerialData raises the flag only on consuming a terminator, and when
\*    the bytes ahead of that terminator complete a line of 1 to 20 characters
\*    it raises it with exactly these characters in the buffer;
\*  - while the flag is raised no byte enters the buffer and none leaves the
\*    queue; the one step taken with the flag raised is the dispatch, which
\*    hands the buffer to processCommand and leaves the buffer empty and the
\*    flag false; no other step raises the flag, so a line is dispatched once;
\*  - end to end: the dispatch that takes place when all that is left of the
\*    host's latest line, of 1 to 20 characters, is the rest of its
\*    terminator, hands over exactly the characters of that line, however
\*    they arrived and whatever line came before.
C25_LineIntegrity ==
    [][/\ (pc = "read" /\ pc' = "process")
            => /\ ~newData
               /\ newData' => FirstTerm(rx) > 0 /\ rx' = AfterTerm(rx)
               /\ (/\ FirstTerm(rx) > 0
                   /\ Len(inputBuffer \o LineBytes(rx)) \in 1..20)
                    => /\ newData'
                       /\ inputBuffer' = inputBuffer \o LineBytes(rx)
       /\ (pc # "read") => (newData' => newData)
       /\ newData
            => /\ pc = "process"
               /\ IsPrefix(rx, rx')
               /\ inputBuffer' = inputBuffer
                    \/ (/\ pc' = "update"
                        /\ inputBuffer' = <<>>
                        /\ ~newData'
                        /\ Trim(inputBuffer) # <<>>
                                => received' = Trim(inputBuffer))
       /\ (/\ pc = "process" /\ pc' = "update" /\ newData
           /\ sent > 0
           /\ Len(LineBytes(lastLine)) \in 1..20
           /\ rx \o hostLine = AfterTerm(lastLine))
            => inputBuffer = LineBytes(lastLine)]_vars

\* C25 witness: the line of 20 characters, sent second and arrived in pieces,
\* has been dispatched whole; the buffer is empty and the flag false.
C25_Witness ==
    /\ pc = "update"
    /\ sent = 2
    /\ lastLine = Rep("0", 14) \o Dual(45, 135) \o <<LF>>
    /\ hostLine = <<>> /\ rx = <<>>
    /\ received = Rep("0", 14) \o Dual(45, 135)
    /\ setting = <<45, 135>>
    /\ inputBuffer = <<>>
    /\ ~newData
    /\ errors = 0

TypeOK ==
    /\ currentPitch \in Int /\ currentYaw \in Int
    /\ targetPitch \in Int /\ targetYaw \in Int
    /\ newData \in BOOLEAN
    /\ pc \in {"setup", "read", "process", "update"}
    /\ sent \in 0..MaxSent
    /\ Len(rx) <= MaxRx
====
